---------------------------- MODULE Spec2Model ----------------------------
(***************************************************************************)
(* Model of library/phinx.js of the tabledump TablePlus plugin: the Phinx  *)
(* migration generator.  dumpTableAsPhinx dispatches three catalog queries *)
(* whose completion callbacks fill shared accumulators and join on a       *)
(* counter; the last callback assembles the migration text and writes it   *)
(* to the clipboard.  Text is modelled as TLA+ strings, character by       *)
(* character, so that splitting, replacing and serialising are computed    *)
(* the way the JavaScript computes them.                                   *)
(***************************************************************************)
EXTENDS Integers, Sequences, FiniteSets, TLC

(***************************************************************************)
(* JavaScript values that may be null: a string or null.                   *)
(***************************************************************************)
JsNull == [t |-> "null"]
Str(s) == [t |-> "string", s |-> s]
IsString(v) == v.t = "string"

\* string concatenation / template interpolation of a possibly-null value
ToText(v) == IF IsString(v) THEN v.s ELSE "null"

\* truthiness of a string-or-null value
Truthy(v) == IsString(v) /\ v.s # ""

(***************************************************************************)
(* String primitives of the JavaScript runtime.                            *)
(***************************************************************************)
CharAt(s, i) == SubSeq(s, i, i)

StartsWith(s, p) == Len(s) >= Len(p) /\ SubSeq(s, 1, Len(p)) = p

\* String.prototype.indexOf, 1-based; 0 when absent
IndexOf(s, p) ==
    LET hits == {i \in 1..(Len(s) - Len(p) + 1) : SubSeq(s, i, i + Len(p) - 1) = p}
    IN  IF hits = {} THEN 0 ELSE CHOOSE i \in hits : \A j \in hits : i <= j

\* String.prototype.includes
Includes(s, p) == IndexOf(s, p) # 0

\* String.prototype.replace with a string pattern: first occurrence only
ReplaceFirst(s, pat, rep) ==
    LET i == IndexOf(s, pat)
    IN  IF i = 0 THEN s
        ELSE SubSeq(s, 1, i - 1) \o rep \o SubSeq(s, i + Len(pat), Len(s))

\* String.prototype.replace with a global regular expression of one literal
RECURSIVE ReplaceAll(_, _, _)
ReplaceAll(s, pat, rep) ==
    LET i == IndexOf(s, pat)
    IN  IF i = 0 THEN s
        ELSE SubSeq(s, 1, i - 1) \o rep
             \o ReplaceAll(SubSeq(s, i + Len(pat), Len(s)), pat, rep)

\* String.prototype.split with a one-character separator
RECURSIVE Split(_, _)
Split(s, sep) ==
    LET i == IndexOf(s, sep)
    IN  IF i = 0 THEN <<s>>
        ELSE <<SubSeq(s, 1, i - 1)>> \o Split(SubSeq(s, i + 1, Len(s)), sep)

LowerAlphabet == "abcdefghijklmnopqrstuvwxyz"
UpperAlphabet == "ABCDEFGHIJKLMNOPQRSTUVWXYZ"
Digits == "0123456789"

MapChar(c, from, to) ==
    LET i == IndexOf(from, c) IN IF i = 0 THEN c ELSE CharAt(to, i)

RECURSIVE MapString(_, _, _)
MapString(s, from, to) ==
    IF s = "" THEN ""
    ELSE MapChar(CharAt(s, 1), from, to) \o MapString(Tail(s), from, to)

toLowerCase(s) == MapString(s, UpperAlphabet, LowerAlphabet)
toUpperCase(s) == MapString(s, LowerAlphabet, UpperAlphabet)

IsDigit(c) == c # "" /\ Includes(Digits, c)
IsSpace(c) == c \in {" ", "\t", "\n", "\r", "\f"}

RECURSIVE TrimLeft(_)
TrimLeft(s) == IF s # "" /\ IsSpace(CharAt(s, 1)) THEN TrimLeft(Tail(s)) ELSE s

RECURSIVE TrimRight(_)
TrimRight(s) ==
    IF s # "" /\ IsSpace(CharAt(s, Len(s)))
    THEN TrimRight(SubSeq(s, 1, Len(s) - 1)) ELSE s

\* length of the longest prefix of s made of decimal digits
RECURSIVE DigitRun(_)
DigitRun(s) == IF s # "" /\ IsDigit(CharAt(s, 1)) THEN 1 + DigitRun(Tail(s)) ELSE 0

RECURSIVE DigitsValue(_)
DigitsValue(s) ==
    IF s = "" THEN 0
    ELSE 10 * DigitsValue(SubSeq(s, 1, Len(s) - 1))
         + (IndexOf(Digits, CharAt(s, Len(s))) - 1)

NaN == [nan |-> TRUE, n |-> 0]
Num(n) == [nan |-> FALSE, n |-> n]

\* parseInt, radix 10: leading blanks, optional sign, longest run of digits
parseInt(s) ==
    LET t    == TrimLeft(s)
        neg  == StartsWith(t, "-")
        u    == IF StartsWith(t, "-") \/ StartsWith(t, "+") THEN Tail(t) ELSE t
        k    == DigitRun(u)
    IN  IF k = 0 THEN NaN
        ELSE Num((IF neg THEN -1 ELSE 1) * DigitsValue(SubSeq(u, 1, k)))

\* the whole of s is a decimal literal: sign, digits, optional fraction
IsDecimalLiteral(s) ==
    LET u  == IF StartsWith(s, "-") \/ StartsWith(s, "+") THEN Tail(s) ELSE s
        k  == DigitRun(u)
        r  == SubSeq(u, k + 1, Len(u))
        f  == IF StartsWith(r, ".") THEN DigitRun(Tail(r)) ELSE 0
    IN  \/ k > 0 /\ r = ""
        \/ StartsWith(r, ".") /\ k + f > 0 /\ Len(r) = 1 + f

\* parseInt(v) == v || parseFloat(v) == v for a string-or-null v: the text
\* converts to a number that its own numeric prefix already denotes
\* (decimal notation; exponents, hexadecimal and Infinity are not modelled)
NumericRoundTrip(v) ==
    IsString(v) /\ IsDecimalLiteral(TrimRight(TrimLeft(v.s)))


(***************************************************************************)
(* Option bag: a JavaScript object used as an insertion-ordered mapping    *)
(* from option name to a string-or-null value.                             *)
(***************************************************************************)
EmptyOpts == <<>>

HasOpt(opts, key) == \E i \in 1..Len(opts) : opts[i].k = key

\* assignment opts.key = value: an existing key keeps its position
SetOpt(opts, key, value) ==
    IF HasOpt(opts, key)
    THEN [i \in 1..Len(opts) |->
            IF opts[i].k = key THEN [k |-> key, v |-> value] ELSE opts[i]]
    ELSE Append(opts, [k |-> key, v |-> value])

\* delete opts.key
DeleteOpt(opts, key) == SelectSeq(opts, LAMBDA e : e.k # key)

RECURSIVE OptEntries(_, _)
OptEntries(opts, optCount) ==
    IF optCount > Len(opts) THEN ""
    ELSE (IF optCount # 1 THEN ", " ELSE "")
         \o "'" \o opts[optCount].k \o "' => " \o ToText(opts[optCount].v)
         \o OptEntries(opts, optCount + 1)

buildPhpArrayOptions(opts) ==
    IF Len(opts) > 0 THEN ", [" \o OptEntries(opts, 1) \o "]" ELSE ""

(***************************************************************************)
(* getColumnDefinition, stage by stage.                                    *)
(***************************************************************************)
Throw == [t |-> "throw"]

typeArr(columnType) == Split(columnType, "(")

typeOnly(columnType) == typeArr(columnType)[1]

\* typeLength before the unsigned marker is stripped
rawTypeLength(columnType) ==
    IF Len(typeArr(columnType)) > 1
    THEN ReplaceFirst(typeArr(columnType)[2], ")", "")
    ELSE ""

scalePrecisionArr(columnType) == Split(rawTypeLength(columnType), ",")

typePrecision(columnType) ==
    IF Len(typeArr(columnType)) > 1 /\ Len(scalePrecisionArr(columnType)) > 1
    THEN scalePrecisionArr(columnType)[1] ELSE ""

typeScale(columnType) ==
    IF Len(typeArr(columnType)) > 1 /\ Len(scalePrecisionArr(columnType)) > 1
    THEN scalePrecisionArr(columnType)[2] ELSE ""

typeLength(columnType) == ReplaceFirst(rawTypeLength(columnType), " unsigned", "")

signedOption(opts, columnType) ==
    IF Includes(columnType, "unsigned") THEN SetOpt(opts, "signed", Str("false"))
    ELSE opts

nullOption(opts, isNullable) ==
    IF StartsWith(toLowerCase(isNullable), "y")
    THEN SetOpt(opts, "null", Str("true"))
    ELSE SetOpt(opts, "null", Str("false"))

defaultOptionQuoted(opts, defaultVal) ==
    IF NumericRoundTrip(defaultVal) THEN SetOpt(opts, "default", defaultVal)
    ELSE IF IsString(defaultVal) /\ defaultVal.s \in {"current_timestamp()", "now()"}
         THEN SetOpt(opts, "default", Str("'CURRENT_TIMESTAMP'"))
    ELSE IF IsString(defaultVal)
         THEN SetOpt(opts, "default", Str("'" \o defaultVal.s \o "'"))
    ELSE opts

defaultOption(opts, defaultVal) ==
    IF IsString(defaultVal) /\ defaultVal.s = "NULL"
         THEN SetOpt(opts, "default", JsNull)
    ELSE IF NumericRoundTrip(defaultVal)
         THEN SetOpt(opts, "default", defaultVal)
    ELSE IF IsString(defaultVal) /\ defaultVal.s \in {"current_timestamp()", "now()"}
         THEN SetOpt(opts, "default", Str("'CURRENT_TIMESTAMP'"))
    ELSE IF HasOpt(opts, "default")
         THEN SetOpt(opts, "default", Str("'" \o ToText(defaultVal) \o "'"))
    ELSE opts

commentGuardMissing(columnComment) == TRUE

\* typeof columnComment != 'undefined' && columnComment
commentGuard(columnComment) == Truthy(columnComment)

\* columnComment.replace(...) is a TypeError on a value that is not a string
commentThrows(columnComment) ==
    commentGuard(columnComment) /\ ~IsString(columnComment)

commentOption(opts, columnComment) ==
    IF commentGuard(columnComment) /\ IsString(columnComment)
    THEN SetOpt(opts, "comment",
                Str("'" \o ReplaceAll(columnComment.s, "'", "\\'") \o "'"))
    ELSE opts

lengthOption(opts, columnType) ==
    IF typeLength(columnType) # ""
    THEN SetOpt(opts, "length", Str(typeLength(columnType)))
    ELSE opts

updateOption(opts, extra) ==
    IF extra = "on update current_timestamp()"
    THEN SetOpt(opts, "update", Str("'CURRENT_TIMESTAMP'"))
    ELSE opts

\* the switch on typeOnly: the Phinx type token
phinxType(columnType) ==
    LET t == typeOnly(columnType)
    IN  CASE t = "varchar"              -> "string"
          [] t \in {"int", "mediumint"} -> "integer"
          [] t = "bigint"               -> "biginteger"
          [] t = "tinyint"              -> "tinyinteger"
          [] OTHER                      -> t

\* the switch on typeOnly: its effect on the option bag
typeOptions(opts, columnType) ==
    IF typeOnly(columnType) \in {"float", "double", "decimal"}
    THEN DeleteOpt(SetOpt(SetOpt(opts, "scale", Str(typeScale(columnType))),
                          "precision", Str(typePrecision(columnType))),
                   "length")
    ELSE opts

columnOptions(columnType, isNullable, defaultVal, extra, columnComment) ==
    typeOptions(
      updateOption(
        lengthOption(
          commentOption(
            defaultOption(
              nullOption(signedOption(EmptyOpts, columnType), isNullable),
              defaultVal),
            columnComment),
          columnType),
        extra),
      columnType)

\* the declaration string, or Throw when evaluation raises a TypeError
getColumnDefinition(columnName, columnType, isNullable, defaultVal, extra, columnComment) ==
    IF commentThrows(columnComment) THEN Throw
    ELSE Str("addColumn('" \o columnName \o "', "
             \o "'" \o phinxType(columnType) \o "'"
             \o buildPhpArrayOptions(
                  columnOptions(columnType, isNullable, defaultVal, extra, columnComment))
             \o ")")

(***************************************************************************)
(* Host-supplied values: TablePlus version and build, and the clock.       *)
(***************************************************************************)
AppVersion == "5.3.0"
AppBuild == "500"
NowText == "Thu Nov 05 2026 10:00:00 GMT+0000 (GMT)"
TableType == "table"

IsAlphaNum(c) ==
    c # "" /\ (Includes(LowerAlphabet, c) \/ Includes(UpperAlphabet, c) \/ IsDigit(c))

\* upper-camel-case of a table name: separators dropped, next letter raised
RECURSIVE camelizeFrom(_, _)
camelizeFrom(s, raise) ==
    IF s = "" THEN ""
    ELSE IF ~IsAlphaNum(CharAt(s, 1)) THEN camelizeFrom(Tail(s), TRUE)
    ELSE (IF raise THEN toUpperCase(CharAt(s, 1)) ELSE CharAt(s, 1))
         \o camelizeFrom(Tail(s), FALSE)

camelize(s) == camelizeFrom(s, TRUE)

header(tableName) ==
    "<?php\n"
    \o "\n"
    \o "    declare(strict_types=1);\n"
    \o "\n"
    \o "    use Phinx\\Migration\\AbstractMigration;\n"
    \o "\n"
    \o "    /**\n"
    \o "     * Migration auto-generated by TablePlus " \o AppVersion
         \o "(" \o AppBuild \o ") on " \o NowText \o "\n"
    \o "     * @author https://tableplus.com\n"
    \o "     * @source https://github.com/TablePlus/tabledump\n"
    \o "     */\n"
    \o "    final class Create" \o camelize(tableName) \o " extends AbstractMigration\n"
    \o "    {\n"
    \o "      /**\n"
    \o "       * Process the migration schema changes\n"
    \o "       * @return void\n"
    \o "       */\n"
    \o "      public function change(): void\n"
    \o "      {\n"

(***************************************************************************)
(* writeTableDumpToClipboard: the three loops and the footer.              *)
(***************************************************************************)
columnDefinitionOf(c) ==
    getColumnDefinition(c.name, c.type, c.nullable, c.default, c.extra, c.comment)

skipsNoColumn(c) == FALSE

\* columns[i].name !== 'id' fails: the column is taken for the primary key
isIdColumn(c) == c.name = "id"

columnLine(c) ==
    IF isIdColumn(c) THEN ""
    ELSE IF IsString(columnDefinitionOf(c))
         THEN "            ->" \o columnDefinitionOf(c).s \o "\n"
         ELSE "            // " \o c.name \o "\n"

\* the section comment appended after the first column's line
RECURSIVE columnLinesCommentAfter(_, _)
columnLinesCommentAfter(cols, i) ==
    IF i > Len(cols) THEN ""
    ELSE columnLine(cols[i])
         \o (IF i = 1 THEN "            // columns:\n" ELSE "")
         \o columnLinesCommentAfter(cols, i + 1)

RECURSIVE columnLines(_, _)
columnLines(cols, i) ==
    IF i > Len(cols) THEN ""
    ELSE (IF i = 1 THEN "            // columns:\n" ELSE "")
         \o columnLine(cols[i]) \o columnLines(cols, i + 1)

\* a TypeError raised inside the column loop leaves the function
columnLoopThrows(cols) ==
    \E i \in 1..Len(cols) :
        ~isIdColumn(cols[i]) /\ columnDefinitionOf(cols[i]) = Throw

indexColumnsAllCommas(columnNames) == ReplaceAll(columnNames, ",", "', '")

indexColumns(columnNames) == ReplaceFirst(columnNames, ",", "', '")

indexOptions(ix) ==
    SetOpt(IF parseInt(ix.nonUnique) = Num(0)
           THEN SetOpt(EmptyOpts, "unique", Str("true")) ELSE EmptyOpts,
           "name", Str("'" \o ix.name \o "'"))

indexLine(ix) ==
    IF ix.name = "PRIMARY" THEN ""
    ELSE "            ->addIndex(['" \o indexColumns(ix.columnNames) \o "']"
         \o buildPhpArrayOptions(indexOptions(ix)) \o ")\n"

RECURSIVE indexLines(_, _)
indexLines(ixs, i) ==
    IF i > Len(ixs) THEN ""
    ELSE (IF i = 1 THEN "            // indexes:\n" ELSE "")
         \o indexLine(ixs[i]) \o indexLines(ixs, i + 1)

ruleText(rule) == "'" \o ReplaceFirst(toUpperCase(rule), " ", "_") \o "'"

fkOptions(fk) ==
    LET u == IF IsString(fk.onUpdate)
             THEN SetOpt(EmptyOpts, "update", Str(ruleText(fk.onUpdate.s)))
             ELSE EmptyOpts
    IN  IF IsString(fk.onDelete)
        THEN SetOpt(u, "delete", Str(ruleText(fk.onDelete.s)))
        ELSE u

foreignKeyLine(fk) ==
    "            ->addForeignKeyWithName('" \o fk.name \o "', '" \o fk.columnName
    \o "', '" \o fk.refTableName \o "', '" \o fk.refColumnName \o "'"
    \o buildPhpArrayOptions(fkOptions(fk)) \o ")\n"

RECURSIVE foreignKeyLines(_, _)
foreignKeyLines(fks, i) ==
    IF i > Len(fks) THEN ""
    ELSE (IF i = 1 THEN "            // foreign keys:\n" ELSE "")
         \o foreignKeyLine(fks[i]) \o foreignKeyLines(fks, i + 1)

footer ==
    "            // commit changes:\n"
    \o "            ->create();\n"
    \o "         }\n"
    \o "    }\n"

\* the text handed to SystemService.insertToClipboard
dumpText(cols, ixs, fks, head, tableName) ==
    head
    \o "          $this->table('" \o tableName \o "')\n"
    \o columnLines(cols, 1)
    \o indexLines(ixs, 1)
    \o foreignKeyLines(fks, 1)
    \o footer

notifyText(tableName) ==
    TableType \o " " \o tableName \o " migration code is copied!"

(***************************************************************************)
(* Bounds on the query results drawn by Init.                              *)
(***************************************************************************)
MaxCols == 2
MaxIdx == 2
MaxFks == 1

Queries == {"columns", "indexes", "foreignKeys"}
Drivers == {"MySQL", "MariaDB", "PostgreSQL"}

\* Array.prototype.sort with a comparator that answers true/false instead of
\* a sign is implementation-defined: engines that test "< 0" leave the array
\* as it is, engines that test "> 0" sort it ascending.
SortOutcomes == {"unchanged", "ascending"}

ColRow(name, type, nullable, default, extra, comment) ==
    [ordinal_position |-> "0", column_name |-> name, column_type |-> type,
     is_nullable |-> nullable, column_default |-> default, extra |-> extra,
     comment |-> comment]

IdxRow(name, nonUnique, columnNames) ==
    [index_name |-> name, index_type |-> "BTREE", non_unique |-> nonUnique,
     column_names |-> columnNames]

FkRow(name, onUpdate, onDelete, columnName, refTableName, refColumnName) ==
    [name |-> name, on_update |-> onUpdate, on_delete |-> onDelete,
     table_name |-> "users", ref_table_name |-> refTableName,
     column_name |-> columnName, ref_column_name |-> refColumnName]

\* rows of whole tables
TableColPool ==
    { ColRow("id", "int(10) unsigned", "NO", JsNull, "auto_increment", Str("")),
      ColRow("age", "int(11)", "NO", Str("0"), "", Str("")),
      ColRow("ID", "decimal(10,2)", "YES", Str("NULL"), "", Str("net")) }

IdxPool ==
    { IdxRow("PRIMARY", "0", "id"),
      IdxRow("age_idx", "1", "age"),
      IdxRow("uniq_ab", "0", "a,b"),
      IdxRow("abc_idx", "1", "a,b,c") }

FkPool ==
    { FkRow("fk_role", Str("NO ACTION"), Str("CASCADE"), "role_id", "roles", "id"),
      FkRow("fk_owner", Str("SET NULL"), JsNull, "owner_id", "users", "id") }

\* rows of single-column tables: the translator's input space
ColumnTypes ==
    { "varchar", "varchar(255)", "int", "int(10) unsigned", "mediumint",
      "bigint", "tinyint", "float", "double", "decimal", "decimal(10,2)",
      "datetime", "enum('a','b')" }
Nullables == {"YES", "NO"}
Defaults ==
    { JsNull, Str("NULL"), Str("5"), Str("1.50"), Str("current_timestamp()"),
      Str("abc") }
Extras == {"", "on update current_timestamp()"}
Comments == {JsNull, Str(""), Str("it's")}

SingleColPool ==
    { ColRow("age", ty, nu, de, ex, co) :
        ty \in ColumnTypes, nu \in Nullables, de \in Defaults,
        ex \in Extras, co \in Comments }

\* result sets of at most n rows; names are unique within a table
SeqsUpTo(S, n) ==
    {rows \in UNION {[1..k -> S] : k \in 0..n} :
        \A i, j \in 1..Len(rows) : i # j => rows[i] # rows[j]}

\* ordinal positions 1..n, delivered in catalog order or back to front
WithOrdinals(rows, reversed) ==
    [i \in 1..Len(rows) |->
        [rows[i] EXCEPT !.ordinal_position =
            CharAt(Digits, 1 + (IF reversed THEN Len(rows) + 1 - i ELSE i))]]

ColRowLists(pool, n) ==
    {WithOrdinals(rows, rev) : rows \in SeqsUpTo(pool, n), rev \in BOOLEAN}

VARIABLES
    driver,            \* tblPlusContext.driver()
    tableName,         \* tblPlusCurrentTable.name()
    sortOutcome,       \* what the host's Array.prototype.sort does
    stalled,           \* queries whose callback the host never invokes
    colRows,           \* result set of the columns query
    idxRows,           \* result set of the index query
    fkRows,            \* result set of the foreign-key query
    pc,                \* "start", "dispatched" or "returned"
    executed,          \* queries handed to tblPlusContext.execute
    order,             \* callbacks in the order they have fired
    columns,
    indexes,
    foreignKeys,
    completedQueries,
    clipboard,         \* texts passed to SystemService.insertToClipboard
    notifications,     \* texts passed to SystemService.notify
    alerts,            \* messages passed to tblPlusContext.alert
    uncaught           \* exceptions that left a callback

env == <<driver, tableName, sortOutcome, stalled, colRows, idxRows, fkRows>>
accumulators == <<columns, indexes, foreignKeys, completedQueries>>
sink == <<clipboard, notifications, uncaught>>
vars == <<env, pc, executed, order, accumulators, sink, alerts>>

Fired == {order[i] : i \in 1..Len(order)}

InitLocals ==
    /\ pc = "start"
    /\ executed = {}
    /\ order = <<>>
    /\ columns = <<>>
    /\ indexes = <<>>
    /\ foreignKeys = <<>>
    /\ completedQueries = 0
    /\ clipboard = <<>>
    /\ notifications = <<>>
    /\ alerts = <<>>
    /\ uncaught = 0

\* any driver, any set of stalled queries, small tables
InitJoin ==
    /\ driver \in Drivers
    /\ stalled \in SUBSET Queries
    /\ sortOutcome = "unchanged"
    /\ tableName \in {"users", "user_roles"}
    /\ colRows \in ColRowLists({r \in TableColPool : r.column_name = "age"}, 1)
    /\ idxRows \in SeqsUpTo({r \in IdxPool : r.index_name = "uniq_ab"}, 1)
    /\ fkRows \in SeqsUpTo({r \in FkPool : r.name = "fk_role"}, 1)

\* a supported driver, no stall, tables over the pools; the three loops of
\* the assembly do not interact, so at most one result set is long
InitTables ==
    /\ driver = "MySQL"
    /\ stalled = {}
    /\ sortOutcome \in SortOutcomes
    /\ tableName = "users"
    /\ colRows \in ColRowLists(TableColPool, MaxCols)
    /\ idxRows \in SeqsUpTo(IdxPool, MaxIdx)
    /\ fkRows \in SeqsUpTo(FkPool, MaxFks)
    /\ Cardinality({q \in Queries :
            Len(CASE q = "columns" -> colRows
                  [] q = "indexes" -> idxRows
                  [] q = "foreignKeys" -> fkRows) > 1}) <= 1

\* a supported driver, no stall, every single-column table
InitColumn ==
    /\ driver = "MariaDB"
    /\ stalled = {}
    /\ sortOutcome = "unchanged"
    /\ tableName = "users"
    /\ colRows \in {WithOrdinals(<<r>>, FALSE) : r \in SingleColPool}
    /\ idxRows = <<>>
    /\ fkRows = <<>>

Init == InitLocals /\ (InitJoin \/ InitTables \/ InitColumn)

(***************************************************************************)
(* dumpTableAsPhinx: the synchronous part.                                 *)
(***************************************************************************)
unsupportedDriver(d) == d # "MariaDB" /\ d # "MySQL"

alertAndReturn ==
    /\ alerts' = Append(alerts, driver \o " is not supported")
    /\ pc' = "returned"
    /\ UNCHANGED executed

\* the three tblPlusContext.execute calls
dispatchQueries ==
    /\ executed' = Queries
    /\ pc' = "dispatched"
    /\ UNCHANGED alerts

\* the guard alerts but does not return: control reaches the switch
dumpTableAsPhinxFallThrough ==
    /\ pc = "start"
    /\ IF unsupportedDriver(driver)
       THEN /\ alerts' = alerts \o <<driver \o " is not supported",
                                     driver \o " is not supported">>
            /\ pc' = "returned"
            /\ UNCHANGED executed
       ELSE dispatchQueries
    /\ UNCHANGED <<env, order, accumulators, sink>>

dumpTableAsPhinx ==
    /\ pc = "start"
    /\ IF unsupportedDriver(driver)
       THEN alertAndReturn
       ELSE IF driver \in {"MySQL", "MariaDB"}
            THEN dispatchQueries
            ELSE alertAndReturn
    /\ UNCHANGED <<env, order, accumulators, sink>>

(***************************************************************************)
(* The completion callbacks and the join.                                  *)
(***************************************************************************)
comparatorTrue(l, r) ==
    /\ ~parseInt(l.ordinal_position).nan
    /\ ~parseInt(r.ordinal_position).nan
    /\ parseInt(l.ordinal_position).n > parseInt(r.ordinal_position).n

RECURSIVE insertRow(_, _)
insertRow(sorted, row) ==
    IF sorted = <<>> THEN <<row>>
    ELSE IF comparatorTrue(sorted[Len(sorted)], row)
         THEN Append(insertRow(SubSeq(sorted, 1, Len(sorted) - 1), row),
                     sorted[Len(sorted)])
         ELSE Append(sorted, row)

RECURSIVE sortAscending(_)
sortAscending(rows) ==
    IF rows = <<>> THEN <<>>
    ELSE insertRow(sortAscending(SubSeq(rows, 1, Len(rows) - 1)), rows[Len(rows)])

\* res.rows.sort(...) under the host's sort
sortRows(rows, outcome) ==
    IF outcome = "ascending" THEN sortAscending(rows) ELSE rows

columnOfRow(row) ==
    [name |-> row.column_name, type |-> row.column_type,
     nullable |-> row.is_nullable, default |-> row.column_default,
     extra |-> row.extra, comment |-> row.comment]

indexOfRow(row) ==
    [name |-> row.index_name, type |-> row.index_type,
     nonUnique |-> row.non_unique, columnNames |-> row.column_names]

foreignKeyOfRow(row) ==
    [name |-> row.name, onUpdate |-> row.on_update, onDelete |-> row.on_delete,
     tableName |-> row.table_name, refTableName |-> row.ref_table_name,
     columnName |-> row.column_name, refColumnName |-> row.ref_column_name]

\* res.rows.forEach(row => accumulator.push(...))
columnsOfRows(rows) == [i \in 1..Len(rows) |-> columnOfRow(rows[i])]
indexesOfRows(rows) == [i \in 1..Len(rows) |-> indexOfRow(rows[i])]
foreignKeysOfRows(rows) == [i \in 1..Len(rows) |-> foreignKeyOfRow(rows[i])]

\* the assembly: a TypeError in the column loop leaves it before the sink
writeTableDumpToClipboard(cols, ixs, fks) ==
    IF columnLoopThrows(cols)
    THEN /\ uncaught' = uncaught + 1
         /\ UNCHANGED <<clipboard, notifications>>
    ELSE /\ clipboard' = Append(clipboard,
                                dumpText(cols, ixs, fks, header(tableName), tableName))
         /\ notifications' = Append(notifications, notifyText(tableName))
         /\ UNCHANGED uncaught

joinFiresFromTwo(count) == count >= 2

\* completedQueries === 3
joinFires(count) == count = 3

join(cols, ixs, fks, count) ==
    IF joinFires(count)
    THEN writeTableDumpToClipboard(cols, ixs, fks)
    ELSE UNCHANGED sink

callbackEnabled(q) ==
    /\ pc = "dispatched"
    /\ q \in executed
    /\ q \notin Fired
    /\ q \notin stalled

\* the join test placed ahead of the loop that appends the rows
columnsCallbackJoinsFirst ==
    /\ callbackEnabled("columns")
    /\ columns' = columns \o columnsOfRows(sortRows(colRows, sortOutcome))
    /\ completedQueries' = completedQueries + 1
    /\ order' = Append(order, "columns")
    /\ join(columns, indexes, foreignKeys, completedQueries')
    /\ UNCHANGED <<env, pc, executed, indexes, foreignKeys, alerts>>

columnsCallback ==
    /\ callbackEnabled("columns")
    /\ columns' = columns \o columnsOfRows(sortRows(colRows, sortOutcome))
    /\ completedQueries' = completedQueries + 1
    /\ order' = Append(order, "columns")
    /\ join(columns', indexes, foreignKeys, completedQueries')
    /\ UNCHANGED <<env, pc, executed, indexes, foreignKeys, alerts>>

indexesCallback ==
    /\ callbackEnabled("indexes")
    /\ indexes' = indexes \o indexesOfRows(idxRows)
    /\ completedQueries' = completedQueries + 1
    /\ order' = Append(order, "indexes")
    /\ join(columns, indexes', foreignKeys, completedQueries')
    /\ UNCHANGED <<env, pc, executed, columns, foreignKeys, alerts>>

foreignKeysCallback ==
    /\ callbackEnabled("foreignKeys")
    /\ foreignKeys' = foreignKeys \o foreignKeysOfRows(fkRows)
    /\ completedQueries' = completedQueries + 1
    /\ order' = Append(order, "foreignKeys")
    /\ join(columns, indexes, foreignKeys', completedQueries')
    /\ UNCHANGED <<env, pc, executed, columns, indexes, alerts>>

Next ==
    \/ dumpTableAsPhinx
    \/ columnsCallback
    \/ indexesCallback
    \/ foreignKeysCallback

Spec == Init /\ [][Next]_vars

(***************************************************************************)
(* Reading the emitted text back: lines, declaration lines, option entries *)
(***************************************************************************)
Indent == "            "

\* the lines of a text, each without its newline
Lines(text) ==
    LET parts == Split(text, "\n")
    IN  IF parts[Len(parts)] = "" THEN SubSeq(parts, 1, Len(parts) - 1) ELSE parts

Occurrences(s, p) ==
    Cardinality({i \in 1..(Len(s) - Len(p) + 1) : SubSeq(s, i, i + Len(p) - 1) = p})

Supported == driver \in {"MySQL", "MariaDB"}
Written == Len(clipboard) = 1
Text == clipboard[1]

\* indices of the columns, and of the indexes, the assembler does not skip
DeclaredColumns == SelectSeq([i \in 1..Len(columns) |-> i],
                             LAMBDA i : columns[i].name # "id")
DeclaredIndexes == SelectSeq([i \in 1..Len(indexes) |-> i],
                             LAMBDA i : indexes[i].name # "PRIMARY")

\* what the assembler appended after the header it was given
Body == SubSeq(Text, Len(header(tableName)) + 1, Len(Text))
BodyLines == Lines(Body)

LinesWith(prefix) ==
    SelectSeq(BodyLines, LAMBDA l : StartsWith(l, Indent \o prefix))

AddColumnLines == LinesWith("->addColumn(")
AddIndexLines == LinesWith("->addIndex(")
AddForeignKeyLines == LinesWith("->addForeignKeyWithName(")

(***************************************************************************)
(* C1: for a supported driver, the assembly runs exactly once, only when   *)
(* all three callbacks have appended their rows and the counter is 3.      *)
(***************************************************************************)
C1_JoinRunsExactlyOnce ==
    Supported =>
        /\ Len(clipboard) + uncaught = (IF Fired = Queries THEN 1 ELSE 0)
        /\ Len(notifications) = Len(clipboard)
        /\ Len(clipboard) > 0 =>
              /\ completedQueries = 3
              /\ Len(columns) = Len(colRows)
              /\ Len(indexes) = Len(idxRows)
              /\ Len(foreignKeys) = Len(fkRows)

C1_Witness ==
    /\ Supported /\ Written /\ completedQueries = 3
    /\ order = <<"indexes", "foreignKeys", "columns">>
    /\ Len(columns) = 2 /\ Len(indexes) = 1 /\ Len(foreignKeys) = 1
    /\ notifications = <<"table users migration code is copied!">>

(***************************************************************************)
(* C2: for a driver other than MySQL and MariaDB, alert is called exactly  *)
(* once and the function returns: no query is issued, no callback runs,    *)
(* nothing reaches the clipboard and no notification is raised.            *)
(***************************************************************************)
C2_UnsupportedDriverAlertsOnce ==
    ~Supported =>
        /\ Len(alerts) = (IF pc = "start" THEN 0 ELSE 1)
        /\ pc \in {"start", "returned"}
        /\ executed = {}
        /\ order = <<>>
        /\ clipboard = <<>>
        /\ notifications = <<>>

C2_Witness ==
    /\ driver = "PostgreSQL" /\ pc = "returned"
    /\ alerts = <<"PostgreSQL is not supported">>

(***************************************************************************)
(* C3: when some query never invokes its callback, the clipboard stays     *)
(* unwritten and neither a notification nor an alert is ever raised.       *)
(***************************************************************************)
C3_StalledQuerySilent ==
    (Supported /\ stalled # {}) =>
        /\ clipboard = <<>>
        /\ notifications = <<>>
        /\ alerts = <<>>
        /\ uncaught = 0

C3_Witness ==
    /\ Supported /\ stalled = {"indexes"}
    /\ Fired = {"columns", "foreignKeys"} /\ completedQueries = 2
    /\ clipboard = <<>>

\* the k-th of some emitted lines ("" when there are fewer)
LineAt(lines, k) == IF k <= Len(lines) THEN lines[k] ELSE ""

MappedToken(type) ==
    CASE type = "varchar"   -> "string"
      [] type = "int"       -> "integer"
      [] type = "mediumint" -> "integer"
      [] type = "bigint"    -> "biginteger"
      [] type = "tinyint"   -> "tinyinteger"
      [] type = "float"     -> "float"
      [] type = "double"    -> "double"
      [] type = "decimal"   -> "decimal"

BaseTypes ==
    {"varchar", "int", "mediumint", "bigint", "tinyint", "float", "double", "decimal"}

Unmodified(c) ==
    /\ c.type \in BaseTypes
    /\ c.default = JsNull
    /\ c.extra = ""
    /\ ~Truthy(c.comment)

C5_BaseTypesNoStrayOptions ==
    Written =>
        \A k \in 1..Len(DeclaredColumns) :
            LET c == columns[DeclaredColumns[k]]
            IN  Unmodified(c) =>
                  LineAt(AddColumnLines, k) \in
                    { Indent \o "->addColumn('" \o c.name \o "', '"
                        \o MappedToken(c.type) \o "', ['null' => " \o b \o "])"
                      : b \in {"true", "false"} }

(***************************************************************************)
(* C6: the text has no addColumn line for a column named exactly 'id' and  *)
(* exactly one addColumn line for every other column, in list order.       *)
(***************************************************************************)
C6_IdColumnSkipped ==
    Written =>
        LET emitted  == AddColumnLines
            declared == DeclaredColumns
        IN  /\ Len(emitted) = Len(declared)
            /\ \A k \in 1..Len(emitted) :
                  /\ StartsWith(emitted[k],
                        Indent \o "->addColumn('" \o columns[declared[k]].name \o "', ")
                  /\ ~StartsWith(emitted[k], Indent \o "->addColumn('id', ")

C6_Witness ==
    /\ Written
    /\ Len(columns) = 2
    /\ columns[1].name = "ID" /\ columns[1].type = "decimal(10,2)"
    /\ columns[2].name = "id" /\ columns[2].type = "int(10) unsigned"
    /\ Len(AddColumnLines) = 1

(***************************************************************************)
(* C7: an index over exactly two columns is emitted with both names quoted *)
(* separately; over three or more columns only the first comma becomes a   *)
(* separator, the later commas stay inside the second quoted element.      *)
(***************************************************************************)
C7_IndexColumnList ==
    Written =>
        LET emitted == AddIndexLines
        IN  \A k \in 1..Len(DeclaredIndexes) :
              LET list  == indexes[DeclaredIndexes[k]].columnNames
                  names == Split(list, ",")
                  tail  == SubSeq(list, Len(names[1]) + 2, Len(list))
              IN  /\ Len(names) = 2 =>
                        StartsWith(LineAt(emitted, k),
                            Indent \o "->addIndex(['" \o names[1] \o "', '"
                                   \o names[2] \o "'], ")
                  /\ Len(names) >= 3 =>
                        /\ StartsWith(LineAt(emitted, k),
                              Indent \o "->addIndex(['" \o names[1] \o "', '"
                                     \o tail \o "'], ")
                        /\ Includes(tail, ",")

C7_Witness ==
    /\ Written
    /\ Len(indexes) = 2
    /\ indexes[1].columnNames = "a,b,c"
    /\ indexes[2].columnNames = "a,b"
    /\ Includes(Text, "->addIndex(['a', 'b,c'], ")
    /\ Includes(Text, "->addIndex(['a', 'b'], ")

(***************************************************************************)
(* C8: translation is never fatal.  Once the three callbacks have fired,   *)
(* no exception has left the assembly, the clipboard is written, every     *)
(* column other than 'id' has its line (a declaration, or a comment naming *)
(* the column), and the index lines, foreign-key lines and footer follow.  *)
(***************************************************************************)
FooterLines ==
    << Indent \o "// commit changes:", Indent \o "->create();", "         }", "    }" >>

C8_TranslationNeverFatal ==
    (Supported /\ Fired = Queries) =>
        /\ uncaught = 0
        /\ Written
        /\ LET lines    == BodyLines
               declared == DeclaredColumns
               isColumnLine(l, c) ==
                   \/ StartsWith(l, Indent \o "->addColumn('" \o c.name \o "', ")
                   \/ l = Indent \o "// " \o c.name
           IN  /\ Len(columns) > 0 => lines[2] = Indent \o "// columns:"
               /\ \A k \in 1..Len(declared) :
                     Len(lines) >= 2 + k /\ isColumnLine(lines[2 + k], columns[declared[k]])
               /\ Len(SelectSeq(lines, LAMBDA l : StartsWith(l, Indent \o "->addIndex(")))
                     = Len(DeclaredIndexes)
               /\ Len(SelectSeq(lines,
                       LAMBDA l : StartsWith(l, Indent \o "->addForeignKeyWithName(")))
                     = Len(foreignKeys)
               /\ Len(lines) >= 4
               /\ SubSeq(lines, Len(lines) - 3, Len(lines)) = FooterLines

C8_Witness ==
    /\ Written /\ uncaught = 0
    /\ Len(columns) = 1
    /\ columns[1].type = "enum('a','b')"
    /\ columns[1].comment = JsNull
    /\ columns[1].default = Str("abc")
    /\ BodyLines[3] = Indent \o "->addColumn('age', 'enum', ['null' => false, 'length' => 'a','b'])"

(***************************************************************************)
(* C9: the text written to the clipboard is a function of the three result *)
(* sets alone: it is the text of the rows taken in the fixed order         *)
(* columns, indexes, foreign keys, whatever order the callbacks fired in.  *)
(***************************************************************************)
C9_OrderIndependentText ==
    clipboard # <<>> =>
        \A n \in 1..Len(clipboard) :
            clipboard[n] =
                dumpText(columnsOfRows(sortRows(colRows, sortOutcome)),
                         indexesOfRows(idxRows),
                         foreignKeysOfRows(fkRows),
                         header(tableName), tableName)

C9_Witness ==
    /\ Written
    /\ order = <<"foreignKeys", "indexes", "columns">>
    /\ Len(colRows) = 2 /\ Len(idxRows) = 1 /\ Len(fkRows) = 1
    /\ Len(AddColumnLines) = 2 /\ Len(AddIndexLines) = 1
    /\ Len(AddForeignKeyLines) = 1

(***************************************************************************)
(* Section comments and the declaration lines of their kind.               *)
(***************************************************************************)
\* positions of the lines equal to a line / starting with a prefix
LinesEqual(lines, line) == {k \in 1..Len(lines) : lines[k] = line}
LinesStarting(lines, prefix) == {k \in 1..Len(lines) : StartsWith(lines[k], prefix)}

First(S) == CHOOSE k \in S : \A j \in S : k <= j

SectionKinds == {"columns", "indexes", "foreign keys"}

SectionComment(kind) == Indent \o "// " \o kind \o ":"

SectionCall(kind) ==
    CASE kind = "columns"      -> "->addColumn("
      [] kind = "indexes"      -> "->addIndex("
      [] kind = "foreign keys" -> "->addForeignKeyWithName("

SectionList(kind) ==
    CASE kind = "columns"      -> columns
      [] kind = "indexes"      -> indexes
      [] kind = "foreign keys" -> foreignKeys

(***************************************************************************)
(* C10 as claimed: each section comment appears at most once, only if a    *)
(* declaration line of its kind is emitted, and then immediately before    *)
(* the first such line.                                                    *)
(***************************************************************************)
C10_CommentOnlyWithDeclarations ==
    Written =>
        LET lines == BodyLines
        IN  \A kind \in SectionKinds :
              LET comments == LinesEqual(lines, SectionComment(kind))
                  decls    == LinesStarting(lines, Indent \o SectionCall(kind))
              IN  /\ Cardinality(comments) <= 1
                  /\ comments # {} => decls # {}
                  /\ (comments # {} /\ decls # {}) => First(comments) + 1 = First(decls)

(***************************************************************************)
(* C10 amended: each section comment appears at most once, appears exactly *)
(* when the list of its kind is non-empty (even if every member is a       *)
(* skipped 'id' column or PRIMARY index), and whenever a declaration line  *)
(* of its kind is emitted it stands immediately before the first such line.*)
(***************************************************************************)
C10_CommentIffListNonEmpty ==
    Written =>
        LET lines == BodyLines
        IN  \A kind \in SectionKinds :
              LET comments == LinesEqual(lines, SectionComment(kind))
                  decls    == LinesStarting(lines, Indent \o SectionCall(kind))
              IN  /\ Cardinality(comments) <= 1
                  /\ comments # {} <=> Len(SectionList(kind)) > 0
                  /\ decls # {} =>
                        comments # {} /\ First(comments) + 1 = First(decls)

C10_Witness ==
    /\ Written
    /\ Len(columns) = 1 /\ columns[1].name = "id"
    /\ Len(indexes) = 1 /\ indexes[1].name = "PRIMARY"
    /\ foreignKeys = <<>>
    /\ BodyLines = << "          $this->table('users')",
                      Indent \o "// columns:", Indent \o "// indexes:" >> \o FooterLines

=============================================================================
